---- MODULE Spec2Model ----
(***************************************************************************)
(* Model of the process supervisor of app/server_manager.py                *)
(* (ServerManager and reader_thread) together with the operating-system    *)
(* facts it observes: which pids exist, what each child received on its    *)
(* stdin and what it wrote to its stdout, and the PID record file.         *)
(*                                                                         *)
(* Request handlers run on one cooperative event loop: a handler is atomic *)
(* up to its next await (asyncio.sleep in stop_server / restart_server).   *)
(* reader_thread runs on its own thread, so its steps interleave with the  *)
(* handlers at every shared read and write.  Processes exit on their own   *)
(* at any time.  Pids are never reused within a run of the model.          *)
(*                                                                         *)
(* SpecFanout is the console fan-out of app/main.py (broadcast_logs and    *)
(* websocket_endpoint) fed by the reader; SpecBackup is the backup engine  *)
(* of app/backup_manager.py with its archival threads.                     *)
(***************************************************************************)
EXTENDS Integers, Sequences, FiniteSets, TLC

\* ---------------------------------------------------------------- bounds
MaxPid == 2
MaxStdin == 1
MaxLines == 3
\* asyncio.Queue(maxsize=500) of main.py line 269, scaled down
QueueMaxsize == 2
MaxRuns == 2
MaxFiles == 2

\* ------------------------------------------------------ program constants
STOP_POLLS == 20
LOG_HISTORY_MAXLEN == 200
MaxRingLines == 202
NoPid == 0

Pid == 1..MaxPid
Requests == {"r1"}
UserCmds == {"say"}
Subs == {"s1", "s2"}
NoLine == 0
Runs == 1..MaxRuns

VARIABLES
    up,                 \* the ServerManager object was constructed
    process,            \* self.process: pid of the Popen handle, NoPid for None
    external_pid,       \* self.external_pid, NoPid for None
    server_start_time,  \* self.server_start_time, NoPid (0) for None
    log_history,        \* self.log_history (deque, maxlen 200)
    publish_queue,      \* self.publish_queue
    pid_file,           \* the file server.pid: [exists, text]
    os,                 \* pid -> "live" | "zombie" | "gone"
    stdin,              \* what was written to self.process.stdin
    stdout,             \* pid -> lines written by the process, not yet read
    next_pid,           \* the pid the next spawn gets
    co,                 \* request -> the suspended stop/restart coroutine
    rd,                 \* reader_thread: [pc, pid]
    ret,                \* what the last completed operation returned
    listeners,          \* server_manager.listeners: the subscribers' queues
    client_queue,       \* subscriber -> its asyncio.Queue(maxsize=500)
    ws,                 \* subscriber -> its websocket_endpoint coroutine
    received,           \* subscriber -> the lines its client was sent
    relay,              \* broadcast_logs: [pc, line]
    src,                \* the line source: [produced, pending]
    current_status,     \* backup_manager.current_status: [state, message]
    cancel_requested,   \* backup_manager.cancel_requested
    worker,             \* run -> its _create_backup_sync thread
    temp,               \* run -> its temporary archive exists
    dest,               \* run -> what it left in the backup directory
    runs,               \* how many runs create_backup has started
    fs,                 \* the files there are, each by its absolute path
    zipped,             \* run -> the entries written to its archive
    clock,              \* the second the wall clock shows
    gs,                 \* get_stats under way: [pc, pid, cpu]
    log_listeners,      \* app_logger.listeners, in registration order
    log_queues,         \* listener -> the messages waiting in its queue
    log_count,          \* how many messages app_logger.log was given
    failed_attempts,    \* rate_limiter.failed_attempts: ip -> the times kept
    now                 \* what time() returns, in seconds

vars == <<up, process, external_pid, server_start_time, log_history,
          publish_queue, pid_file, os, stdin, stdout, next_pid,
          co, rd, ret,
          listeners, client_queue, ws, received, relay, src,
          current_status, cancel_requested, worker, temp, dest, runs,
          fs, zipped, clock,
          gs, log_listeners, log_queues, log_count,
          failed_attempts, now>>

\* the login rate limiter of rate_limiter.py
rl_vars == <<failed_attempts, now>>

\* the application logger of logger.py
lg_vars == <<log_listeners, log_queues, log_count>>

\* the console fan-out of main.py
fan_vars == <<listeners, client_queue, ws, received, relay, src>>

\* what the supervisor's operations leave alone
\* the backup engine of backup_manager.py
bk_vars == <<current_status, cancel_requested, worker, temp, dest, runs,
            fs, zipped, clock>>

\* what lies outside the supervisor
other_vars == <<fan_vars, bk_vars, lg_vars, rl_vars>>

ext_vars == <<other_vars, gs>>

sup_vars == <<up, process, external_pid, server_start_time, log_history,
              publish_queue>>

\* ------------------------------------------------------------ data shapes
Absent == [exists |-> FALSE, text |-> NoPid]
Record(p) == [exists |-> TRUE, text |-> p]

Line(n) == [kind |-> "out", n |-> n]
Notice(p) == [kind |-> "system", n |-> p]

Idle == [kind |-> "idle", pc |-> "idle", polls |-> 0]

Result(op, status, message) ==
    [op |-> op, status |-> status, message |-> message]

MsgAlreadyRunning == "Server is already running"
MsgJarNotFound == "Jar file not found"
MsgSpawnFailed == "Popen raised"
MsgUnboundLocal == "cannot access local variable 'time'"
MsgStarted == "Server started"
MsgNotRunning == "Server is not running"
MsgStopped == "Server stopped gracefully"
MsgOrphanTimeout == "Cannot stop orphaned server gracefully (no console access). Use Kill."
MsgStillRunning == "Stop command sent, but server is still running. Use Kill if needed."
MsgStopFailed == "Failed to stop server for restart"
MsgRestarted == "Server restarted successfully"
MsgRestartStartFailed == "Failed to start server after stop"
MsgKilled == "Process killed"
MsgNoProcess == "No process to kill"

\* ------------------------------------------------------ operating system
PollIsNone(p) == os[p] = "live"
PidExists(p) == os[p] \in {"live", "zombie"}
IsZombie(p) == os[p] = "zombie"

\* Popen.poll() reaps a child that has exited.
Reaped(o, p) == IF p # NoPid /\ o[p] = "zombie" THEN [o EXCEPT ![p] = "gone"] ELSE o

\* SIGKILL: the process ends and is collected (by the subprocess module for
\* a child, by its parent otherwise); no reference to its pid is kept.
Killed(o, p) == IF p # NoPid /\ o[p] # "gone" THEN [o EXCEPT ![p] = "gone"] ELSE o

\* A pipe whose read end is closed loses what was in it.  The read end of a
\* child's stdout is held by the Popen object in self.process and, during a
\* readline(), by the reader thread.
Closed(so, held) == [p \in Pid |-> IF p \in held THEN so[p] ELSE <<>>]

\* ------------------------------------------------------------ is_running
clean_pid_file(f) == IF f.exists THEN Absent ELSE f

\* is_running without the adopted branch
is_running_owned_only == process # NoPid /\ PollIsNone(process)

is_running ==
    IF process # NoPid THEN PollIsNone(process)
    ELSE IF external_pid # NoPid
         THEN PidExists(external_pid) /\ ~IsZombie(external_pid)
         ELSE FALSE

\* the state is_running() leaves behind
ir_external_pid ==
    IF process = NoPid /\ external_pid # NoPid /\ ~is_running
    THEN NoPid ELSE external_pid

\* is_running cleaning the PID record on the owned branch only
ir_pid_file_owned_only ==
    IF process # NoPid /\ ~is_running THEN clean_pid_file(pid_file) ELSE pid_file

ir_pid_file ==
    IF (process # NoPid \/ external_pid # NoPid) /\ ~is_running
    THEN clean_pid_file(pid_file) ELSE pid_file

ir_os == Reaped(os, process)

\* ------------------------------------------------------------ event loop
\* Handlers run one at a time; another handler runs only while every
\* coroutine is suspended in an await.
Suspended(k) == k.pc \in {"idle", "sleep", "pause"}
GsIdle == [pc |-> "idle", pid |-> NoPid, cpu |-> 0]
LoopFree(c) == up /\ gs = GsIdle /\ \A d \in Requests \ {c} : Suspended(co[d])
LoopIdle == up /\ gs = GsIdle /\ \A d \in Requests : Suspended(co[d])

\* ---------------------------------------------------------- send_command
WriteLine(cmd) == <<cmd, "\n">>

\* process.stdin.write(cmd + "\n"); flush(): a live child receives the line;
\* writing to a child that has exited raises BrokenPipeError (an IOError).
write_raises == process # NoPid /\ os[process] # "live"

send_command_stdin(cmd) ==
    IF process # NoPid /\ ~write_raises
    THEN Append(stdin, WriteLine(cmd))
    ELSE stdin

\* whether the IOError leaves send_command (it is caught at line 311)
send_command_raises == FALSE

StdinRoom == process # NoPid /\ ~write_raises => Len(stdin) < MaxStdin

\* the /api/command handler of main.py
SendCommand(cmd) ==
    /\ LoopIdle
    /\ StdinRoom
    /\ stdin' = send_command_stdin(cmd)
    /\ ret' = IF send_command_raises /\ write_raises
              THEN Result("send_command", "raised", "IOError")
              ELSE Result("send_command", "sent", "")
    /\ UNCHANGED <<sup_vars, pid_file, os, stdout, next_pid,
                   co, rd>>
    /\ UNCHANGED ext_vars

\* ---------------------------------------------------------- start_server
StartResult(jarOk, spawnOk) ==
    IF is_running THEN Result("start", "error", MsgAlreadyRunning)
    ELSE IF ~jarOk THEN Result("start", "error", MsgJarNotFound)
    ELSE IF ~spawnOk THEN Result("start", "error", MsgSpawnFailed)
    \* line 129 reads the name time, which the import at line 132 makes a
    \* local of start_server: UnboundLocalError, caught at line 149
    ELSE Result("start", "error", MsgUnboundLocal)

Spawns(jarOk, spawnOk) == ~is_running /\ jarOk /\ spawnOk

\* line 119 written as self.external_pid = self.process.pid
spawned_external_pid_own == next_pid

\* line 119: self.external_pid = None
spawned_external_pid == NoPid

\* jarOk: os.path.exists(jar_path); spawnOk: subprocess.Popen did not raise
start_server(jarOk, spawnOk) ==
    IF Spawns(jarOk, spawnOk)
    THEN /\ next_pid <= MaxPid
         /\ process' = next_pid
         /\ external_pid' = spawned_external_pid
         /\ pid_file' = Record(next_pid)
         /\ os' = [ir_os EXCEPT ![next_pid] = "live"]
         /\ next_pid' = next_pid + 1
         /\ stdin' = <<>>                       \* a new pipe
         \* the server prints its first line as it starts
         /\ stdout' = [Closed(stdout, {rd.pid}) EXCEPT ![next_pid] = <<Line(next_pid)>>]
         \* the assignment of line 129 is never completed
         /\ server_start_time' = server_start_time
    ELSE /\ process' = process
         /\ external_pid' = ir_external_pid
         /\ pid_file' = ir_pid_file
         /\ os' = ir_os
         /\ UNCHANGED <<next_pid, server_start_time, stdin, stdout>>

\* the /api/start handler
StartServer ==
    /\ LoopIdle
    /\ \E jarOk \in BOOLEAN, spawnOk \in BOOLEAN :
          /\ start_server(jarOk, spawnOk)
          /\ ret' = StartResult(jarOk, spawnOk)
    /\ UNCHANGED <<up, log_history, publish_queue, co, rd>>
    /\ UNCHANGED ext_vars

\* ------------------------------------------------------------- is_running
IsRunning ==
    /\ LoopIdle
    /\ ret' = Result("is_running", IF is_running THEN "True" ELSE "False", "")
    /\ external_pid' = ir_external_pid
    /\ pid_file' = ir_pid_file
    /\ os' = ir_os
    /\ UNCHANGED <<up, process, server_start_time, log_history, publish_queue,
                   stdin, stdout, next_pid, co, rd>>
    /\ UNCHANGED ext_vars

\* ------------------------------------------------------------- force_kill
KillPid == IF process # NoPid THEN process ELSE external_pid

force_kill_os ==
    IF process # NoPid
    THEN Killed(Reaped(os, process), process)   \* Popen.kill() polls first
    ELSE Killed(os, external_pid)

\* force_kill answering success whatever it found
force_kill_result_always_success == Result("kill", "success", MsgKilled)

\* lines 252-255
force_kill_result ==
    IF KillPid # NoPid
    THEN Result("kill", "success", MsgKilled)
    ELSE Result("kill", "error", MsgNoProcess)

ForceKill ==
    /\ LoopIdle
    /\ process' = NoPid
    /\ external_pid' = IF process # NoPid THEN external_pid ELSE NoPid
    /\ os' = force_kill_os
    /\ pid_file' = clean_pid_file(pid_file)
    /\ ret' = force_kill_result
    /\ stdin' = <<>>
    /\ stdout' = Closed(stdout, {rd.pid})
    /\ UNCHANGED <<up, server_start_time, log_history, publish_queue,
                   next_pid, co, rd>>
    /\ UNCHANGED ext_vars

\* ------------------------------------------------------------ stop_server
\* restart_server going on to the pause whatever stop_server returned
stop_returns_unchecked(c, status, message) ==
    IF co[c].kind = "restart"
    THEN /\ ret' = ret
         /\ co' = [co EXCEPT ![c] = [kind |-> "restart", pc |-> "pause", polls |-> 0]]
    ELSE /\ ret' = Result("stop", status, message)
         /\ co' = [co EXCEPT ![c] = Idle]

\* What the caller of stop_server gets: the /api/stop handler returns it,
\* restart_server goes on with it (lines 200-208).
stop_returns(c, status, message) ==
    IF co[c].kind = "restart"
    THEN IF status = "error"
         THEN /\ ret' = Result("restart", "error", MsgStopFailed)
              /\ co' = [co EXCEPT ![c] = Idle]
         ELSE /\ ret' = ret
              /\ co' = [co EXCEPT ![c] = [kind |-> "restart", pc |-> "pause", polls |-> 0]]
    ELSE /\ ret' = Result("stop", status, message)
         /\ co' = [co EXCEPT ![c] = Idle]

\* lines 160-167: the entry of stop_server, up to the first poll of the loop
stop_entry(c, kind) ==
    /\ external_pid' = ir_external_pid
    /\ pid_file' = ir_pid_file
    /\ os' = ir_os
    /\ IF is_running
       THEN /\ StdinRoom
            /\ stdin' = send_command_stdin("stop")
            /\ co' = [co EXCEPT ![c] = [kind |-> kind, pc |-> "loop", polls |-> 0]]
            /\ ret' = ret
       ELSE /\ stdin' = stdin
            /\ stop_returns(c, "error", MsgNotRunning)

\* the /api/stop handler
StopServer(c) ==
    /\ LoopFree(c)
    /\ co[c].kind = "idle"
    /\ stop_entry(c, "stop")
    /\ UNCHANGED <<up, process, server_start_time, log_history, publish_queue,
                   stdout, next_pid, rd>>
    /\ UNCHANGED ext_vars

\* lines 170-176: one pass of the loop, i = co[c].polls
StopPoll(c) ==
    /\ LoopFree(c)
    /\ \/ co[c].pc = "loop"
       \/ co[c].pc = "sleep" /\ co[c].polls < STOP_POLLS
    /\ external_pid' = ir_external_pid
    /\ pid_file' = ir_pid_file
    /\ os' = ir_os
    /\ IF is_running
       THEN /\ co' = [co EXCEPT ![c].pc = "sleep", ![c].polls = @ + 1]
            /\ ret' = ret
       ELSE stop_returns(c, "success", MsgStopped)
    /\ UNCHANGED <<up, process, server_start_time, log_history, publish_queue,
                   stdin, stdout, next_pid, rd>>
    /\ UNCHANGED ext_vars

\* lines 178-186: the loop is over
timeout_message ==
    IF external_pid # NoPid /\ PidExists(external_pid)
    THEN MsgOrphanTimeout ELSE MsgStillRunning

StopTimeout(c) ==
    /\ LoopFree(c)
    /\ co[c].pc = "sleep" /\ co[c].polls = STOP_POLLS
    /\ stop_returns(c, "warning", timeout_message)
    /\ UNCHANGED <<sup_vars, pid_file, os, stdin, stdout, next_pid,
                   rd>>
    /\ UNCHANGED ext_vars

\* --------------------------------------------------------- restart_server
restart_result(r) ==
    IF r.status = "success"
    THEN Result("restart", "success", MsgRestarted)
    ELSE Result("restart", "error", MsgRestartStartFailed)

\* lines 194-200: the /api/restart handler up to the call of stop_server
RestartServer(c) ==
    /\ LoopFree(c)
    /\ co[c].kind = "idle"
    /\ IF is_running
       THEN /\ co' = [co EXCEPT ![c] = [kind |-> "restart", pc |-> "call_stop", polls |-> 0]]
            /\ UNCHANGED <<process, external_pid, pid_file, os, next_pid,
                           server_start_time, ret, stdin, stdout>>
       ELSE /\ \E jarOk \in BOOLEAN, spawnOk \in BOOLEAN :
                  /\ start_server(jarOk, spawnOk)
                  /\ ret' = [StartResult(jarOk, spawnOk) EXCEPT !.op = "restart"]
            /\ co' = co
    /\ UNCHANGED <<up, log_history, publish_queue, rd>>
    /\ UNCHANGED ext_vars

\* line 200: stop_server called by restart_server
RestartStop(c) ==
    /\ LoopFree(c)
    /\ co[c].pc = "call_stop"
    /\ stop_entry(c, "restart")
    /\ UNCHANGED <<up, process, server_start_time, log_history, publish_queue,
                   stdout, next_pid, rd>>
    /\ UNCHANGED ext_vars

\* lines 208-220: after the pause
RestartStart(c) ==
    /\ LoopFree(c)
    /\ co[c].pc = "pause"
    /\ \E jarOk \in BOOLEAN, spawnOk \in BOOLEAN :
          /\ start_server(jarOk, spawnOk)
          /\ ret' = restart_result(StartResult(jarOk, spawnOk))
    /\ co' = [co EXCEPT ![c] = Idle]
    /\ UNCHANGED <<up, log_history, publish_queue, rd>>
    /\ UNCHANGED ext_vars

\* -------------------------------------------------------------- get_stats
\* lines 334-342: the pid of the handle, the Owned one first
TrackedPidOf(p, e) == IF p # NoPid THEN p ELSE e

\* get_stats runs on the event loop without an await, so no other handler
\* runs inside it; the process it inspects may exit or disappear between
\* any two of its psutil calls.
StatsResult(status, cpu, ram, uptime) ==
    [op |-> "get_stats", status |-> status, message |-> "",
     cpu |-> cpu, ram |-> ram, uptime |-> uptime]

\* lines 368-381: the uptime string
uptime(status) ==
    IF status = "online" /\ server_start_time # NoPid THEN "known" ELSE "N/A"

\* cpu_percent() of a Process object that was sampled before
cpu_percent_sampled(p) == 1

\* line 357: cpu_percent() without an interval, on a psutil.Process made
\* for this call, has nothing to compare with and answers 0.0
cpu_percent(p) == 0

\* lines 326-349: the pid is chosen and is_running() is asked
GetStatsEnter ==
    /\ LoopIdle
    /\ os' = ir_os
    /\ external_pid' = ir_external_pid
    /\ pid_file' = ir_pid_file
    /\ IF is_running
       THEN /\ gs' = [pc |-> "cpu", pid |-> TrackedPidOf(process, external_pid), cpu |-> 0]
            /\ ret' = ret
       ELSE /\ gs' = GsIdle
            /\ ret' = StatsResult("offline", 0, 0, uptime("offline"))
    /\ UNCHANGED <<up, process, server_start_time, log_history, publish_queue,
                   stdin, stdout, next_pid, co, rd>>
    /\ UNCHANGED other_vars

\* lines 351-357: psutil.Process(pid) and cpu_percent(); NoSuchProcess when
\* the pid is gone (lines 360-362)
GetStatsCpu ==
    /\ up
    /\ gs.pc = "cpu"
    /\ IF os[gs.pid] = "gone"
       THEN /\ gs' = GsIdle
            /\ ret' = StatsResult("offline", 0, 0, uptime("offline"))
       ELSE /\ gs' = [gs EXCEPT !.pc = "mem", !.cpu = cpu_percent(gs.pid)]
            /\ ret' = ret
    /\ UNCHANGED <<sup_vars, pid_file, os, stdin, stdout, next_pid, co, rd>>
    /\ UNCHANGED other_vars

\* lines 358-390: memory_info() and the result; a pid that is gone raises
\* NoSuchProcess, a zombie raises ZombieProcess (a NoSuchProcess) or reports
\* no memory, and any other failure is logged with the status left online
GetStatsMem ==
    /\ up
    /\ gs.pc = "mem"
    /\ gs' = GsIdle
    /\ \E out \in {"rss", "no_such_process", "other"} :
         /\ out = "rss" => os[gs.pid] # "gone"
         /\ out = "no_such_process" => os[gs.pid] # "live"
         /\ ret' = CASE out = "rss" ->
                          StatsResult("online", gs.cpu,
                                      IF os[gs.pid] = "live" THEN 1 ELSE 0,
                                      uptime("online"))
                     [] out = "no_such_process" ->
                          StatsResult("offline", gs.cpu, 0, uptime("offline"))
                     [] OTHER ->
                          StatsResult("online", gs.cpu, 0, uptime("online"))
    /\ UNCHANGED <<sup_vars, pid_file, os, stdin, stdout, next_pid, co, rd>>
    /\ UNCHANGED other_vars

\* ============================================================ app_logger
\* app_logger.log and the queues registered in app_logger.listeners: the
\* bounded asyncio.Queue of each /ws/debug client and the queue.Queue of
\* the diagnostics script.
DebugQueueMaxsize == 2
MaxLogs == 4

DebugClients == {"d1", "d2"}
ThreadListeners == {"t1"}
LogListeners == DebugClients \cup ThreadListeners

lg_rest == <<up, process, external_pid, server_start_time, log_history,
             publish_queue, pid_file, os, stdin, stdout, next_pid, co, rd,
             fan_vars, bk_vars, gs, rl_vars>>

Registered == {log_listeners[i] : i \in 1..Len(log_listeners)}

\* put_nowait of a queue.Queue() never finds it full; put_nowait of an
\* asyncio.Queue(maxsize=500) raises asyncio.QueueFull, which is not a
\* queue.Full
q_full(l, qs) == l \in DebugClients /\ Len(qs[l]) >= DebugQueueMaxsize

\* line 105: the exception of put_nowait that the except clause lets through
escapes(l, qs) == q_full(l, qs)

\* lines 100-106: put the message on each queue of the copied list in turn;
\* the first exception that is not queue.Full ends the loop and the call
RECURSIVE broadcast(_, _, _)
broadcast(ls, qs, m) ==
    IF ls = <<>> THEN [queues |-> qs, raised |-> FALSE]
    ELSE IF escapes(Head(ls), qs) THEN [queues |-> qs, raised |-> TRUE]
    ELSE IF q_full(Head(ls), qs) THEN broadcast(Tail(ls), qs, m)
    ELSE broadcast(Tail(ls), [qs EXCEPT ![Head(ls)] = Append(@, m)], m)

LogReturn(b) == Result("log", IF b.raised THEN "raised" ELSE "returned", "")

\* lines 72-82: any caller of app_logger.log / info / debug / error
Log ==
    /\ log_count < MaxLogs
    /\ log_count' = log_count + 1
    /\ LET b == broadcast(log_listeners, log_queues, log_count + 1)
       IN  /\ log_queues' = b.queues
           /\ ret' = LogReturn(b)
    /\ UNCHANGED <<log_listeners, lg_rest>>

\* main.py lines 234-240: accept, log the connection, register the queue;
\* an exception of the log call ends the handler before the registration
DebugConnect(l) ==
    /\ l \in DebugClients \ Registered
    /\ log_count < MaxLogs
    /\ log_count' = log_count + 1
    /\ LET b == broadcast(log_listeners, log_queues, log_count + 1)
       IN  /\ ret' = [LogReturn(b) EXCEPT !.op = "debug_connect"]
           /\ IF b.raised
              THEN /\ log_queues' = b.queues
                   /\ log_listeners' = log_listeners
              ELSE /\ log_queues' = [b.queues EXCEPT ![l] = <<>>]
                   /\ log_listeners' = Append(log_listeners, l)
    /\ UNCHANGED lg_rest

\* main.py lines 242-246: one line is taken from the queue and sent
DebugSend(l) ==
    /\ l \in DebugClients \cap Registered
    /\ log_queues[l] # <<>>
    /\ log_queues' = [log_queues EXCEPT ![l] = Tail(@)]
    /\ UNCHANGED <<log_listeners, log_count, ret, lg_rest>>

\* main.py lines 248-251: the disconnection is logged, then the queue is
\* removed; an exception of the log call leaves the queue registered
DebugDisconnect(l) ==
    /\ l \in DebugClients \cap Registered
    /\ log_count < MaxLogs
    /\ log_count' = log_count + 1
    /\ LET b == broadcast(log_listeners, log_queues, log_count + 1)
       IN  /\ ret' = [LogReturn(b) EXCEPT !.op = "debug_disconnect"]
           /\ log_queues' = b.queues
           /\ log_listeners' = IF b.raised THEN log_listeners
                               ELSE SelectSeq(log_listeners, LAMBDA x : x # l)
    /\ UNCHANGED lg_rest

\* debug_diagnostics.py lines 35-36: a queue.Queue() is registered
ThreadRegister(l) ==
    /\ l \in ThreadListeners \ Registered
    /\ log_listeners' = Append(log_listeners, l)
    /\ log_queues' = [log_queues EXCEPT ![l] = <<>>]
    /\ UNCHANGED <<log_count, ret, lg_rest>>

\* debug_diagnostics.py line 42: q.get
ThreadGet(l) ==
    /\ l \in ThreadListeners \cap Registered
    /\ log_queues[l] # <<>>
    /\ log_queues' = [log_queues EXCEPT ![l] = Tail(@)]
    /\ UNCHANGED <<log_listeners, log_count, ret, lg_rest>>

LgInit ==
    /\ log_listeners = <<>>
    /\ log_queues = [l \in LogListeners |-> <<>>]
    /\ log_count = 0

\* ---------------------------------------------------------- reader_thread
\* a ring that evicts nothing
RingAppendAll(h, x) == Append(h, x)

\* line 16: deque(maxlen=200).append
RingAppend(h, x) ==
    IF Len(h) >= LOG_HISTORY_MAXLEN THEN Append(Tail(h), x) ELSE Append(h, x)

\* line 414, first half: server_manager.process is read; without a process
\* the thread sleeps and looks again (line 445)
ReaderCheck ==
    /\ up
    /\ rd.pc = "check"
    /\ rd' = IF process # NoPid THEN [pc |-> "deref", pid |-> NoPid] ELSE rd
    /\ UNCHANGED <<sup_vars, pid_file, os, stdin, stdout, next_pid,
                   co, ret>>
    /\ UNCHANGED ext_vars

\* the message of line 447
ReaderErrorLine == 0

\* lines 414-415: server_manager.process is read again for its stdout; if
\* force_kill cleared it meanwhile the AttributeError is caught at line 446,
\* whose handler logs the error (line 447) before it sleeps: an exception
\* of that call leaves the loop and ends the thread
ReaderDeref ==
    /\ up
    /\ rd.pc = "deref"
    /\ IF process # NoPid
       THEN /\ rd' = [pc |-> "read", pid |-> process]
            /\ UNCHANGED log_queues
       ELSE LET b == broadcast(log_listeners, log_queues, ReaderErrorLine)
            IN  /\ log_queues' = b.queues
                /\ rd' = [pc |-> IF b.raised THEN "dead" ELSE "check",
                          pid |-> NoPid]
    /\ UNCHANGED <<sup_vars, pid_file, os, stdin, stdout, next_pid,
                   co, ret>>
    /\ UNCHANGED <<fan_vars, bk_vars, gs, log_listeners, log_count, rl_vars>>

\* lines 415-435: readline() returned a line
ReaderLine ==
    /\ up
    /\ rd.pc = "read"
    /\ stdout[rd.pid] # <<>>
    /\ log_history' = RingAppend(log_history, Head(stdout[rd.pid]))
    /\ publish_queue' = Append(publish_queue, Head(stdout[rd.pid]))
    /\ stdout' = Closed([stdout EXCEPT ![rd.pid] = Tail(@)], {process})
    /\ rd' = [pc |-> "check", pid |-> NoPid]
    /\ UNCHANGED <<up, process, external_pid, server_start_time, pid_file,
                   os, stdin, next_pid, co, ret>>
    /\ UNCHANGED ext_vars

\* lines 436-441: readline() returned "" (the child closed its stdout)
ReaderEof ==
    /\ up
    /\ rd.pc = "read"
    /\ stdout[rd.pid] = <<>>
    /\ os[rd.pid] # "live"
    /\ rd' = [pc |-> "is_running", pid |-> NoPid]
    /\ UNCHANGED <<sup_vars, pid_file, os, stdin, stdout, next_pid,
                   co, ret>>
    /\ UNCHANGED ext_vars

\* line 441, is_running() on the reader's thread, lines 258-263 and 270-296:
\* the handle is polled; the PID record is cleaned in a later step
ReaderIsRunning ==
    /\ up
    /\ rd.pc = "is_running"
    /\ os' = ir_os
    /\ IF process # NoPid
       THEN /\ rd' = [pc |-> IF PollIsNone(process) THEN "check" ELSE "clean", pid |-> NoPid]
            /\ UNCHANGED <<external_pid, pid_file>>
       ELSE /\ rd' = [pc |-> "check", pid |-> NoPid]
            /\ external_pid' = ir_external_pid
            /\ pid_file' = ir_pid_file
    /\ UNCHANGED <<up, process, server_start_time, log_history, publish_queue,
                   stdin, stdout, next_pid, co, ret>>
    /\ UNCHANGED ext_vars

\* lines 267-268 on the reader's thread: _clean_pid_file(), then the sleep
ReaderClean ==
    /\ up
    /\ rd.pc = "clean"
    /\ pid_file' = clean_pid_file(pid_file)
    /\ rd' = [pc |-> "check", pid |-> NoPid]
    /\ UNCHANGED <<sup_vars, os, stdin, stdout, next_pid,
                   co, ret>>
    /\ UNCHANGED ext_vars

\* ------------------------------------------------- ServerManager.__init__
ParseInt(text) == IF text = NoPid THEN NoPid ELSE text
ParseFails(text) == text = NoPid

\* _check_orphan with the test for a zombie inverted
check_orphan_zombie_inverted(readOk) ==
    IF ~pid_file.exists THEN "none"
    ELSE IF ~readOk \/ ParseFails(pid_file.text) THEN "caught"
    ELSE IF PidExists(ParseInt(pid_file.text))
         THEN IF IsZombie(ParseInt(pid_file.text)) THEN "adopt" ELSE "zombie"
         ELSE "stale"

\* _check_orphan without the try/except around the read
check_orphan_uncaught(readOk) ==
    IF ~pid_file.exists THEN "none"
    ELSE IF ~readOk \/ ParseFails(pid_file.text) THEN "raise"
    ELSE IF PidExists(ParseInt(pid_file.text))
         THEN IF ~IsZombie(ParseInt(pid_file.text)) THEN "adopt" ELSE "zombie"
         ELSE "stale"

\* _check_orphan: which branch the PID record leads to
check_orphan(readOk) ==
    IF ~pid_file.exists THEN "none"
    ELSE IF ~readOk \/ ParseFails(pid_file.text) THEN "caught"
    ELSE IF PidExists(ParseInt(pid_file.text))
         THEN IF ~IsZombie(ParseInt(pid_file.text)) THEN "adopt" ELSE "zombie"
         ELSE "stale"

\* The manager process ends (it is stopped, or it crashes): its memory, its
\* handlers and its reader thread are gone; the server it started runs on.
ManagerExit ==
    /\ up
    /\ up' = FALSE
    /\ process' = NoPid
    /\ external_pid' = NoPid
    /\ server_start_time' = NoPid
    /\ log_history' = <<>>
    /\ publish_queue' = <<>>
    /\ stdin' = <<>>
    /\ co' = [c \in Requests |-> Idle]
    /\ rd' = [pc |-> "check", pid |-> NoPid]
    /\ ret' = Result("exit", "none", "")
    /\ stdout' = Closed(stdout, {})
    /\ gs' = GsIdle
    /\ UNCHANGED <<pid_file, os, next_pid>>
    /\ UNCHANGED other_vars

\* lines 14-25: the manager process starts again: ServerManager() runs
\* _check_orphan; readOk: open() and read() of the PID record did not raise
Construct ==
    /\ ~up
    /\ \E readOk \in BOOLEAN :
        LET branch == check_orphan(readOk) IN
          /\ up' = (branch # "raise")
          /\ external_pid' = IF branch = "adopt" THEN ParseInt(pid_file.text) ELSE NoPid
          /\ log_history' = IF branch = "adopt"
                            THEN RingAppend(<<>>, Notice(ParseInt(pid_file.text)))
                            ELSE <<>>
          /\ pid_file' = IF branch = "stale" THEN Absent ELSE pid_file
          /\ ret' = Result("construct", branch, "")
    /\ UNCHANGED <<process, server_start_time, publish_queue, os, stdin, stdout,
                   next_pid, co, rd>>
    /\ UNCHANGED ext_vars

\* ------------------------------------------------------------ environment
\* a process exits (by itself, or because it obeyed a stop command)
ProcExit(p) ==
    /\ os[p] = "live"
    /\ os' = [os EXCEPT ![p] = "zombie"]
    /\ UNCHANGED <<sup_vars, pid_file, stdin, stdout, next_pid,
                   co, rd, ret>>
    /\ UNCHANGED ext_vars

\* its parent collects it; a child held in self.process is collected by poll()
ProcReap(p) ==
    /\ os[p] = "zombie"
    /\ p # process
    /\ os' = [os EXCEPT ![p] = "gone"]
    /\ UNCHANGED <<sup_vars, pid_file, stdin, stdout, next_pid,
                   co, rd, ret>>
    /\ UNCHANGED ext_vars

\* the PID record was left truncated by a write cut short when the manager
\* went down, or is damaged while it is down
RecordDamaged ==
    /\ ~up
    /\ pid_file.exists
    /\ ~ParseFails(pid_file.text)
    /\ pid_file' = Record(NoPid)
    /\ UNCHANGED <<sup_vars, os, stdin, stdout, next_pid,
                   co, rd, ret>>
    /\ UNCHANGED ext_vars

\* ===================================================== console fan-out
\* main.py: broadcast_logs (the relay) and websocket_endpoint (one coroutine
\* per subscriber) run on the event loop, each atomic up to its next await;
\* reader_thread appends to log_history and puts on publish_queue from its
\* own thread, and publish_queue.get runs on a worker thread.  The server's
\* output is a source of numbered lines.

\* everything the fan-out leaves alone
fan_rest == <<up, process, external_pid, server_start_time, pid_file, os,
              stdin, stdout, next_pid, co, rd, ret, bk_vars, gs, lg_vars,
              rl_vars>>

Listening == {listeners[i] : i \in 1..Len(listeners)}
Unsubscribed == [pc |-> "new", replay |-> <<>>, open |-> FALSE]
Gone == [pc |-> "gone", replay |-> <<>>, open |-> FALSE]

\* q.put(line) on a queue without a bound
put_nowait_unbounded(q, line) == Append(q, line)

\* lines 216-219: q.put_nowait(line), QueueFull swallowed
put_nowait(q, line) ==
    IF Len(q) < QueueMaxsize THEN Append(q, line) ELSE q

\* listeners.remove that removes nothing
listeners_remove_nothing(l, s) == l

\* lines 285-286, 290-291: listeners.remove(client_queue)
listeners_remove(l, s) == SelectSeq(l, LAMBDA t : t # s)

\* server_manager.py line 434: log_history.append(line)
FanReaderAppend ==
    /\ src.pending = NoLine
    /\ src.produced < MaxLines
    /\ log_history' = RingAppend(log_history, Line(src.produced + 1))
    /\ src' = [produced |-> src.produced + 1, pending |-> src.produced + 1]
    /\ UNCHANGED <<publish_queue, listeners, client_queue, ws, received, relay>>
    /\ UNCHANGED fan_rest

\* server_manager.py line 434 over a long run of the server: the reader
\* appends line after line, more of them than the ring holds
LongReaderAppend ==
    /\ src.pending = NoLine
    /\ src.produced < MaxRingLines
    /\ log_history' = RingAppend(log_history, Line(src.produced + 1))
    /\ src' = [produced |-> src.produced + 1, pending |-> src.produced + 1]
    /\ UNCHANGED <<publish_queue, listeners, client_queue, ws, received, relay>>
    /\ UNCHANGED fan_rest

\* server_manager.py line 435: publish_queue.put(line)
FanReaderPut ==
    /\ src.pending # NoLine
    /\ publish_queue' = Append(publish_queue, Line(src.pending))
    /\ src' = [src EXCEPT !.pending = NoLine]
    /\ UNCHANGED <<log_history, listeners, client_queue, ws, received, relay>>
    /\ UNCHANGED fan_rest

\* line 210: publish_queue.get() returned a line on the worker thread
RelayGet ==
    /\ relay.pc = "get"
    /\ publish_queue # <<>>
    /\ relay' = [pc |-> "put", line |-> Head(publish_queue)]
    /\ publish_queue' = Tail(publish_queue)
    /\ UNCHANGED <<log_history, listeners, client_queue, ws, received, src>>
    /\ UNCHANGED fan_rest

\* lines 215-219: the coroutine resumes and replicates the line
RelayFanout ==
    /\ relay.pc = "put"
    /\ client_queue' = [s \in Subs |->
                          IF s \in Listening
                          THEN put_nowait(client_queue[s], relay.line)
                          ELSE client_queue[s]]
    /\ relay' = [pc |-> "get", line |-> NoLine]
    /\ UNCHANGED <<log_history, publish_queue, listeners, ws, received, src>>
    /\ UNCHANGED fan_rest

\* lines 265-275: accept() returned; the queue is created and registered and
\* the history ring is copied, with no await in between
Subscribe(s) ==
    /\ ws[s].pc = "new"
    /\ listeners' = Append(listeners, s)
    /\ client_queue' = [client_queue EXCEPT ![s] = <<>>]
    /\ ws' = [ws EXCEPT ![s] = [pc |-> IF log_history = <<>> THEN "live" ELSE "replay",
                                replay |-> log_history, open |-> TRUE]]
    /\ UNCHANGED <<log_history, publish_queue, received, relay, src>>
    /\ UNCHANGED fan_rest

\* lines 275-276: one line of the copied history is sent
ReplaySend(s) ==
    /\ ws[s].pc = "replay"
    /\ ws[s].open
    /\ received' = [received EXCEPT ![s] = Append(@, Head(ws[s].replay))]
    /\ ws' = [ws EXCEPT ![s] = [pc |-> IF Len(ws[s].replay) = 1 THEN "live" ELSE "replay",
                                replay |-> Tail(ws[s].replay), open |-> TRUE]]
    /\ UNCHANGED <<log_history, publish_queue, listeners, client_queue, relay, src>>
    /\ UNCHANGED fan_rest

\* lines 278-280: a line is taken from the subscriber's queue and sent
LiveSend(s) ==
    /\ ws[s].pc = "live"
    /\ ws[s].open
    /\ client_queue[s] # <<>>
    /\ received' = [received EXCEPT ![s] = Append(@, Head(client_queue[s]))]
    /\ client_queue' = [client_queue EXCEPT ![s] = Tail(@)]
    /\ UNCHANGED <<log_history, publish_queue, listeners, ws, relay, src>>
    /\ UNCHANGED fan_rest

\* lines 282-291: send_text raises (WebSocketDisconnect or another
\* exception) and the handler removes its queue from the listeners
SendFails(s) ==
    /\ ~ws[s].open
    /\ \/ ws[s].pc = "replay"
       \/ ws[s].pc = "live" /\ client_queue[s] # <<>>
    /\ listeners' = listeners_remove(listeners, s)
    /\ client_queue' = [client_queue EXCEPT ![s] = <<>>]
    /\ ws' = [ws EXCEPT ![s] = Gone]
    /\ UNCHANGED <<log_history, publish_queue, received, relay, src>>
    /\ UNCHANGED fan_rest

\* the subscriber's connection goes away; the handler learns of it at its
\* next send
Disconnect(s) ==
    /\ ws[s].pc \in {"replay", "live"}
    /\ ws[s].open
    /\ ws' = [ws EXCEPT ![s].open = FALSE]
    /\ UNCHANGED <<log_history, publish_queue, listeners, client_queue, received,
                   relay, src>>
    /\ UNCHANGED fan_rest

FanInit ==
    /\ listeners = <<>>
    /\ client_queue = [s \in Subs |-> <<>>]
    /\ ws = [s \in Subs |-> Unsubscribed]
    /\ received = [s \in Subs |-> <<>>]
    /\ relay = [pc |-> "get", line |-> NoLine]
    /\ src = [produced |-> 0, pending |-> NoLine]

\* ======================================================= backup engine
\* backup_manager.py: create_backup and cancel_backup run on the event loop
\* and have no await before they return; each accepted create_backup starts
\* _create_backup_sync on a thread of its own, whose steps interleave with
\* the handlers at every read and write of current_status and
\* cancel_requested.  Any file-system or logging call of the worker may
\* raise.

bk_rest == <<up, process, external_pid, server_start_time, log_history,
             publish_queue, pid_file, os, stdin, stdout, next_pid, co, rd,
             fan_vars, gs, lg_vars, rl_vars>>

MsgBackupRunning == "Backup already running"
MsgBackupStarted == "Backup started"
MsgCancelRequested == "Cancellation requested"
MsgNoBackup == "No backup running"
MsgCancelled == "Cancelled by user"
MsgWorldNotFound == "World folder 'world' not found."
MsgNoFiles == "No files found"
MsgOSError == "OSError"
MsgInvalidPath == "Invalid path"
MsgDeleted == "Backup deleted"
MsgFileNotFound == "File not found"

\* ----------------------------------------------------------------- paths
\* A name is the sequence of the pieces of text it is made of, a path is
\* the sequence of its names, and the string of a path is its names with a
\* separator before each: a test on strings sees a name piece by piece.
Sep == "/"
Dotdot == <<"..">>
BackupsName == <<"backups">>
SiblingName == <<"backups", "2">>
world_name == <<"world">>

\* the working directory of the application
cwd == << <<"srv">> >>

\* config.py lines 14-15: "server_dir": "." and "backup_path": "./backups"
server_dir == <<>>
backup_dir == <<BackupsName>>

\* os.path.normpath: a ".." takes back the name before it
RECURSIVE normpath(_, _)
normpath(p, acc) ==
    IF p = <<>> THEN acc
    ELSE IF Head(p) = Dotdot
         THEN normpath(Tail(p), IF acc = <<>> THEN acc
                                ELSE SubSeq(acc, 1, Len(acc) - 1))
         ELSE normpath(Tail(p), Append(acc, Head(p)))

abspath(p) == normpath(cwd \o p, <<>>)
join(a, b) == a \o b
dirname(p) == SubSeq(p, 1, Len(p) - 1)
basename(p) == p[Len(p)]

RECURSIVE PathString(_)
PathString(p) ==
    IF p = <<>> THEN <<>> ELSE <<Sep>> \o Head(p) \o PathString(Tail(p))

\* str.startswith
startswith(s, prefix) ==
    Len(s) >= Len(prefix) /\ SubSeq(s, 1, Len(prefix)) = prefix

\* p lies in directory d or below it
Inside(p, d) == Len(p) >= Len(d) /\ SubSeq(p, 1, Len(d)) = d

RECURSIVE CommonLen(_, _)
CommonLen(p, q) ==
    IF p = <<>> \/ q = <<>> \/ Head(p) # Head(q) THEN 0
    ELSE 1 + CommonLen(Tail(p), Tail(q))

\* os.path.relpath of two absolute paths
relpath(p, start) ==
    LET k == CommonLen(p, start)
    IN  [i \in 1..(Len(start) - k) |-> Dotdot] \o SubSeq(p, k + 1, Len(p))

Digits == <<"1", "2", "3", "4", "5">>

\* the files a server directory may hold when it is walked
ServerFiles ==
    { cwd \o << <<"server.jar">> >> }
    \cup { cwd \o <<world_name, <<"r.", Digits[i], ".mca">> >> :
              i \in 1..(MaxFiles - 1) }

\* a file beside the backup directory, in a directory whose name begins
\* with the backup directory's name
SiblingFile == cwd \o <<SiblingName, <<"old.zip">> >>

\* ----------------------------------------------------------------- names
MaxClock == 2
Seconds == <<"00", "01", "02", "03">>

\* line 101: the time of day to the second
strftime(t) == Seconds[t]

\* lines 105 and 109
base_name(type, t) ==
    IF type = "full" THEN <<"full_backup_", strftime(t), ".zip">>
    ELSE <<"world_backup_">> \o world_name \o <<"_", strftime(t), ".zip">>

\* lines 104 and 108
source_root(type) ==
    IF type = "full" THEN server_dir ELSE join(server_dir, <<world_name>>)

\* os.path.exists
isdir(p) ==
    \/ p = abspath(backup_dir)
    \/ \E f \in fs : Len(f) > Len(p) /\ SubSeq(f, 1, Len(p)) = p
exists(p) == p \in fs \/ isdir(p)

splitext(filename) ==
    [name |-> SubSeq(filename, 1, Len(filename) - 1),
     ext |-> <<filename[Len(filename)]>>]

\* lines 57-60: the loop of _get_unique_path
RECURSIVE unique_from(_, _, _, _)
unique_from(directory, filename, counter, new_filename) ==
    IF exists(abspath(join(directory, <<new_filename>>)))
    THEN unique_from(directory, filename, counter + 1,
                     splitext(filename).name \o <<"_", Digits[counter]>>
                         \o splitext(filename).ext)
    ELSE abspath(join(directory, <<new_filename>>))

\* a unique path that is the name it was given
get_unique_path_given(directory, filename) ==
    abspath(join(directory, <<filename>>))

\* lines 53-61
get_unique_path(directory, filename) ==
    unique_from(directory, filename, 1, filename)

\* an entry named after its place under the source root
arcname_in_source(file_path, type) ==
    relpath(file_path, abspath(source_root(type)))

\* line 134
arcname(file_path, type) ==
    relpath(file_path,
            abspath(IF type = "full" THEN server_dir
                    ELSE dirname(source_root(type))))

\* lines 126-136: the walk keeps the files below the source root whose
\* directory's string does not begin with the backup directory's string
files_to_zip(present, type) ==
    { f \in present :
        /\ Inside(f, abspath(source_root(type)))
        /\ ~startswith(PathString(dirname(f)), PathString(abspath(backup_dir))) }

\* ---------------------------------------------------------------- status
Status(state, message) ==
    [state |-> state, message |-> message, progress |-> 0, filename |-> <<>>]
Terminal == {"success", "error", "cancelled"}

Unborn == [pc |-> "unborn", e |-> "", todo |-> 0, bound |-> FALSE,
           type |-> "", base |-> <<>>, target |-> <<>>, found |-> {},
           tree |-> {}, walk |-> {}, cur |-> <<>>, after |-> 0]
Ended(pc) == [Unborn EXCEPT !.pc = pc]
\* the record of a thread that has ended, with its count of late work kept
EndedRun(r, pc) == [Ended(pc) EXCEPT !.after = worker[r].after]
Active(r) == worker[r].pc \notin {"unborn", "done", "dead"}

\* create_backup without its test of the state
create_refused_never == FALSE

\* line 64
create_refused == current_status.state = "running"

\* a create_backup that leaves the flag as it finds it
created_cancel_flag_kept == cancel_requested

\* line 84: self.cancel_requested = False
created_cancel_flag == FALSE

\* lines 63-90
CreateBackup ==
    /\ IF create_refused
       THEN /\ ret' = Result("create_backup", "error", MsgBackupRunning)
            /\ UNCHANGED bk_vars
       ELSE /\ runs < MaxRuns
            /\ runs' = runs + 1
            /\ current_status' = Status("running", "Initializing...")
            /\ cancel_requested' = created_cancel_flag
            /\ \E type \in {"full", "world"} :
                 worker' = [worker EXCEPT ![runs + 1] =
                              [Unborn EXCEPT !.pc = "start", !.type = type]]
            /\ ret' = Result("create_backup", "started", MsgBackupStarted)
            /\ UNCHANGED <<temp, dest, fs, zipped, clock>>
    /\ UNCHANGED bk_rest

\* cancel_backup without its test of the state
cancel_accepted_always == TRUE

\* line 24
cancel_accepted == current_status.state = "running"

\* lines 23-29
CancelBackup ==
    /\ IF cancel_accepted
       THEN /\ cancel_requested' = TRUE
            /\ ret' = Result("cancel_backup", "success", MsgCancelRequested)
       ELSE /\ cancel_requested' = cancel_requested
            /\ ret' = Result("cancel_backup", "error", MsgNoBackup)
    /\ UNCHANGED <<current_status, worker, temp, dest, runs, fs, zipped, clock>>
    /\ UNCHANGED bk_rest

\* an exception leaves the try block for line 188
raise(r, e) == worker' = [worker EXCEPT ![r].pc = "except", ![r].e = e]

\* lines 95-120: the paths are set up; makedirs may raise and the world
\* folder may be missing; the name of the archive is chosen
WorkerSetup(r) ==
    /\ worker[r].pc = "start"
    /\ \E out \in {"ok", "makedirs_raises", "world_missing"} :
         /\ out = "world_missing" => worker[r].type = "world"
         /\ IF out = "ok"
            THEN /\ worker' = [worker EXCEPT
                      ![r].pc = "scan",
                      ![r].base = base_name(worker[r].type, clock),
                      ![r].target = get_unique_path(
                                        backup_dir,
                                        base_name(worker[r].type, clock))]
                 /\ current_status' = [current_status EXCEPT !.message = "Scanning files..."]
            ELSE /\ raise(r, IF out = "world_missing" THEN MsgWorldNotFound
                             ELSE MsgOSError)
                 /\ UNCHANGED current_status
    /\ UNCHANGED <<cancel_requested, temp, dest, runs, ret, fs, zipped, clock>>
    /\ UNCHANGED bk_rest

\* lines 126-140: the walk over the source, with the cancel checkpoint of
\* line 127, finds the files that are there
WorkerScan(r) ==
    /\ worker[r].pc = "scan"
    /\ \E present \in SUBSET ServerFiles :
         LET found == files_to_zip(present \cup fs, worker[r].type)
         IN  IF cancel_requested THEN raise(r, MsgCancelled)
             ELSE IF Cardinality(found) = 0 THEN raise(r, MsgNoFiles)
             ELSE worker' = [worker EXCEPT ![r].pc = "mkstemp",
                                           ![r].todo = Cardinality(found),
                                           ![r].found = found]
    /\ UNCHANGED <<current_status, cancel_requested, temp, dest, runs, ret,
                   fs, zipped, clock>>
    /\ UNCHANGED bk_rest

\* lines 145-156: the temporary archive is created and opened
WorkerMkstemp(r) ==
    /\ worker[r].pc = "mkstemp"
    /\ current_status' = [current_status EXCEPT !.message = "Archiving files...",
                                                !.filename = worker[r].base]
    /\ \E out \in {"ok", "mkstemp_raises", "zipfile_raises"} :
         /\ temp' = [temp EXCEPT ![r] = (out # "mkstemp_raises")]
         /\ worker' = [worker EXCEPT
                         ![r].pc = IF out = "ok" THEN "zip" ELSE "except",
                         ![r].e = IF out = "ok" THEN "" ELSE MsgOSError,
                         ![r].bound = (out # "mkstemp_raises")]
    /\ UNCHANGED <<cancel_requested, dest, runs, ret, fs, zipped, clock>>
    /\ UNCHANGED bk_rest

\* the loop recomputes the progress every 100 files (line 162), here every
\* ProgressEvery files
ProgressEvery == 1

\* a progress that counts the files still to do
percent_left(processed, total_files) ==
    ((total_files - processed) * 100) \div total_files

\* line 163: int((processed / total_files) * 100)
percent(processed, total_files) == (processed * 100) \div total_files

\* lines 161-163: the status after one more file was written
Progressed(r) ==
    LET total_files == Cardinality(worker[r].found)
        processed == total_files - worker[r].todo + 1
    IN  IF processed % ProgressEvery = 0
        THEN [current_status EXCEPT !.progress = percent(processed, total_files)]
        ELSE current_status

\* the file the loop of line 157 has come to
NextFile(r) ==
    CHOOSE f \in worker[r].found : arcname(f, worker[r].type) \notin zipped[r]

\* lines 156-165: one turn of the archival loop with the cancel checkpoint
\* of line 158, or the end of the with block; leaving the with block closes
\* the archive, which may raise in place of the exception under way
WorkerZip(r) ==
    /\ worker[r].pc = "zip"
    /\ \E ok \in BOOLEAN :
         IF worker[r].todo = 0
         THEN /\ IF ok THEN worker' = [worker EXCEPT ![r].pc = "final"]
                       ELSE raise(r, MsgOSError)
              /\ UNCHANGED <<zipped, current_status>>
         ELSE IF cancel_requested
              THEN /\ raise(r, IF ok THEN MsgCancelled ELSE MsgOSError)
                   /\ UNCHANGED <<zipped, current_status>>
              ELSE IF ok
                   THEN /\ worker' = [worker EXCEPT ![r].todo = @ - 1]
                        /\ zipped' = [zipped EXCEPT ![r] =
                               @ \cup {arcname(NextFile(r), worker[r].type)}]
                        /\ current_status' = Progressed(r)
                   ELSE /\ raise(r, MsgOSError)
                        /\ UNCHANGED <<zipped, current_status>>
    /\ UNCHANGED <<cancel_requested, temp, dest, runs, ret, fs, clock>>
    /\ UNCHANGED bk_rest

\* lines 168-171: the last cancel checkpoint
WorkerFinalCheck(r) ==
    /\ worker[r].pc = "final"
    /\ IF cancel_requested
       THEN /\ raise(r, MsgCancelled)
            /\ UNCHANGED current_status
       ELSE /\ worker' = [worker EXCEPT ![r].pc = "move"]
            /\ current_status' = [current_status EXCEPT !.message = "Finalizing..."]
    /\ UNCHANGED <<cancel_requested, temp, dest, runs, ret, fs, zipped, clock>>
    /\ UNCHANGED bk_rest

\* line 172: shutil.move renames the temporary archive, or copies it to
\* another file system and unlinks it; a copy that fails leaves what it
\* wrote
WorkerMove(r) ==
    /\ worker[r].pc = "move"
    /\ \E out \in {"ok", "raises", "partial"} :
         /\ temp' = [temp EXCEPT ![r] = (out # "ok")]
         /\ dest' = [dest EXCEPT ![r] = CASE out = "ok" -> "final"
                                          [] out = "partial" -> "partial"
                                          [] OTHER -> @]
         /\ fs' = IF out = "raises" THEN fs ELSE fs \cup {worker[r].target}
         /\ IF out = "ok" THEN worker' = [worker EXCEPT ![r].pc = "post"]
                          ELSE raise(r, MsgOSError)
    /\ UNCHANGED <<current_status, cancel_requested, runs, ret, zipped, clock>>
    /\ UNCHANGED bk_rest

\* lines 181-186
StatusSuccess(filename) ==
    [state |-> "success", message |-> "Backup completed successfully",
     progress |-> 100, filename |-> filename]

\* lines 173-186: chmod, getsize and the log calls, then the success status
WorkerPostMove(r) ==
    /\ worker[r].pc = "post"
    /\ \E ok \in BOOLEAN :
         IF ok
         THEN /\ current_status' = StatusSuccess(worker[r].base)
              /\ worker' = [worker EXCEPT ![r] = EndedRun(r, "done")]
         ELSE /\ raise(r, MsgOSError)
              /\ UNCHANGED current_status
    /\ UNCHANGED <<cancel_requested, temp, dest, runs, ret, fs, zipped, clock>>
    /\ UNCHANGED bk_rest

\* lines 190-197: os.remove and the log call are not guarded
except_raises(r, out) == out # "ok"

\* the except block reporting the engine idle again
final_state_idle(e) == "idle"

\* line 193
final_state(e) == IF e = MsgCancelled THEN "cancelled" ELSE "error"

\* lines 188-204: the except block
WorkerExcept(r) ==
    /\ worker[r].pc = "except"
    /\ \E out \in {"ok", "remove_raises", "log_raises"} :
         /\ out = "remove_raises" => worker[r].bound /\ temp[r]
         /\ temp' = [temp EXCEPT ![r] =
                       IF worker[r].bound /\ temp[r] /\ out # "remove_raises"
                       THEN FALSE ELSE @]
         /\ zipped' = [zipped EXCEPT ![r] = {}]
         /\ IF except_raises(r, out)
            THEN /\ worker' = [worker EXCEPT ![r] = EndedRun(r, "dead")]
                 /\ UNCHANGED current_status
            ELSE /\ worker' = [worker EXCEPT ![r] = EndedRun(r, "done")]
                 /\ current_status' = Status(final_state(worker[r].e), worker[r].e)
    /\ UNCHANGED <<cancel_requested, dest, runs, ret, fs, clock>>
    /\ UNCHANGED bk_rest

WorkerStep(r) ==
    \/ WorkerSetup(r)
    \/ WorkerScan(r)
    \/ WorkerMkstemp(r)
    \/ WorkerZip(r)
    \/ WorkerFinalCheck(r)
    \/ WorkerMove(r)
    \/ WorkerPostMove(r)
    \/ WorkerExcept(r)

\* ------------------------------------------- the worker, checkpoint by
\* checkpoint: the walk directory by directory and the archival loop entry
\* by entry, each checkpoint a step of its own, so that a cancel request
\* may arrive between a checkpoint and the work that follows it.  The
\* field after counts the directories listed into the file list and the
\* entries written while the cancel flag was set.

\* the directories os.walk(source_root) comes to: the source root and
\* every directory below it that leads to a file
Dirs(tree, type) ==
    {abspath(source_root(type))}
    \cup UNION { { SubSeq(f, 1, k) :
                     k \in Len(abspath(source_root(type)))..(Len(f) - 1) } :
                 f \in { g \in tree : Inside(g, abspath(source_root(type))) } }

\* a loop without a checkpoint
checkpoint_none == FALSE

\* lines 127 and 158: if self.cancel_requested: raise
checkpoint == cancel_requested

\* line 126: os.walk(source_root) is begun on the files that are there
WalkStart(r) ==
    /\ worker[r].pc = "scan"
    /\ \E present \in SUBSET ServerFiles :
         worker' = [worker EXCEPT
                      ![r].pc = "walk",
                      ![r].tree = present \cup fs,
                      ![r].walk = Dirs(present \cup fs, worker[r].type)]
    /\ UNCHANGED <<current_status, cancel_requested, temp, dest, runs, ret,
                   fs, zipped, clock>>
    /\ UNCHANGED bk_rest

\* lines 126-127 and 138-140: the walk yields its next directory and the
\* checkpoint is passed or not; after the last directory the list is
\* counted
WalkCheck(r) ==
    /\ worker[r].pc = "walk"
    /\ IF worker[r].walk = {}
       THEN IF worker[r].found = {} THEN raise(r, MsgNoFiles)
            ELSE worker' = [worker EXCEPT ![r].pc = "mkstemp",
                                          ![r].todo = Cardinality(worker[r].found)]
       ELSE IF checkpoint THEN raise(r, MsgCancelled)
            ELSE worker' = [worker EXCEPT
                              ![r].pc = "walkdir",
                              ![r].cur = CHOOSE d \in worker[r].walk : TRUE]
    /\ UNCHANGED <<current_status, cancel_requested, temp, dest, runs, ret,
                   fs, zipped, clock>>
    /\ UNCHANGED bk_rest

\* lines 129-136: the files of the directory go on the list, unless the
\* directory's string begins with the backup directory's
WalkDir(r) ==
    /\ worker[r].pc = "walkdir"
    /\ worker' = [worker EXCEPT
                    ![r].pc = "walk",
                    ![r].walk = @ \ {worker[r].cur},
                    ![r].cur = <<>>,
                    ![r].after = IF cancel_requested THEN @ + 1 ELSE @,
                    ![r].found = @ \cup
                        files_to_zip({ f \in worker[r].tree :
                                         dirname(f) = worker[r].cur },
                                     worker[r].type)]
    /\ UNCHANGED <<current_status, cancel_requested, temp, dest, runs, ret,
                   fs, zipped, clock>>
    /\ UNCHANGED bk_rest

\* lines 157-158 and the end of the with block: the loop comes to its next
\* file and the checkpoint is passed or not
ZipCheck(r) ==
    /\ worker[r].pc = "zip"
    /\ \E ok \in BOOLEAN :
         IF worker[r].todo = 0
         THEN IF ok THEN worker' = [worker EXCEPT ![r].pc = "final"]
                    ELSE raise(r, MsgOSError)
         ELSE IF checkpoint
              THEN raise(r, IF ok THEN MsgCancelled ELSE MsgOSError)
              ELSE /\ ok
                   /\ worker' = [worker EXCEPT ![r].pc = "zipwrite"]
    /\ UNCHANGED <<current_status, cancel_requested, temp, dest, runs, ret,
                   fs, zipped, clock>>
    /\ UNCHANGED bk_rest

\* lines 160-165: zipf.write of the file, which may raise
ZipWrite(r) ==
    /\ worker[r].pc = "zipwrite"
    /\ \E ok \in BOOLEAN :
         IF ok
         THEN /\ worker' = [worker EXCEPT
                              ![r].pc = "zip",
                              ![r].todo = @ - 1,
                              ![r].after = IF cancel_requested THEN @ + 1 ELSE @]
              /\ zipped' = [zipped EXCEPT ![r] =
                     @ \cup {arcname(NextFile(r), worker[r].type)}]
              /\ current_status' = Progressed(r)
         ELSE /\ raise(r, MsgOSError)
              /\ UNCHANGED <<zipped, current_status>>
    /\ UNCHANGED <<cancel_requested, temp, dest, runs, ret, fs, clock>>
    /\ UNCHANGED bk_rest

FineWorkerStep(r) ==
    \/ WorkerSetup(r)
    \/ WalkStart(r)
    \/ WalkCheck(r)
    \/ WalkDir(r)
    \/ WorkerMkstemp(r)
    \/ ZipCheck(r)
    \/ ZipWrite(r)
    \/ WorkerFinalCheck(r)
    \/ WorkerMove(r)
    \/ WorkerPostMove(r)
    \/ WorkerExcept(r)

\* the names a caller may pass to delete_backup: the archives that are
\* there, one that is not, the directory itself and two ways out of it
DeleteNames ==
    { <<basename(f)>> : f \in {g \in fs : dirname(g) = abspath(backup_dir)} }
    \cup { <<base_name("world", 1)>>,
           <<>>,
           <<Dotdot, SiblingName, <<"old.zip">> >>,
           <<Dotdot, <<"server.jar">> >> }

\* line 211: the security check of delete_backup
delete_denied(target) ==
    ~startswith(PathString(abspath(target)), PathString(abspath(backup_dir)))

\* lines 206-221; getsize and os.remove are not guarded, and os.remove of
\* a directory raises
DeleteBackup ==
    /\ \E filename \in DeleteNames :
         LET target == join(backup_dir, filename)
         IN  IF delete_denied(target)
             THEN /\ ret' = Result("delete_backup", "error", MsgInvalidPath)
                  /\ fs' = fs
             ELSE IF exists(abspath(target))
             THEN \E out \in {"ok", "raises"} :
                    /\ out = "ok" => abspath(target) \in fs
                    /\ IF out = "ok"
                       THEN /\ fs' = fs \ {abspath(target)}
                            /\ ret' = Result("delete_backup", "success", MsgDeleted)
                       ELSE /\ fs' = fs
                            /\ ret' = Result("delete_backup", "raised", MsgOSError)
             ELSE /\ ret' = Result("delete_backup", "error", MsgFileNotFound)
                  /\ fs' = fs
    /\ UNCHANGED <<current_status, cancel_requested, worker, temp, dest, runs,
                   zipped, clock>>
    /\ UNCHANGED bk_rest

\* the clock of line 101 reaches the next second
Tick ==
    /\ clock < MaxClock
    /\ clock' = clock + 1
    /\ UNCHANGED <<current_status, cancel_requested, worker, temp, dest, runs,
                   fs, zipped, ret>>
    /\ UNCHANGED bk_rest

BkInit ==
    /\ current_status = Status("idle", "")
    /\ cancel_requested = FALSE
    /\ worker = [r \in Runs |-> Unborn]
    /\ temp = [r \in Runs |-> FALSE]
    /\ dest = [r \in Runs |-> "none"]
    /\ runs = 0
    /\ fs = {SiblingFile}
    /\ zipped = [r \in Runs |-> {}]
    /\ clock = 1

\* ---------------------------------------------------------------------
\* rate_limiter.py: the login rate limiter, and the login handler of main.py
\* ---------------------------------------------------------------------

\* time() is sampled every TickSeconds seconds, up to MaxTime
TickSeconds == 30
MaxTime == 390

\* rate_limiter.py lines 8-10
LOCKOUT_TIME == 300
MAX_ATTEMPTS == 5
WINDOW == 60

\* what the limiter and the login handler leave alone
rl_rest == <<up, process, external_pid, server_start_time, log_history,
             publish_queue, pid_file, os, stdin, stdout, next_pid, co, rd,
             fan_vars, bk_vars, gs, lg_vars>>

\* request.client.host of the clients there are
Ips == {"10.0.0.1"}

\* line 17: [t for t in failed_attempts[client_ip] if t > now - WINDOW]
RECURSIVE recent(_, _)
recent(ts, t_now) ==
    IF ts = <<>> THEN <<>>
    ELSE IF Head(ts) > t_now - WINDOW
         THEN <<Head(ts)>> \o recent(Tail(ts), t_now)
         ELSE recent(Tail(ts), t_now)

\* lines 12-27: check_rate_limit as the list it leaves for the client and
\* whether it raised the 429
check_rate_limit(ts, t_now) ==
    LET kept == recent(ts, t_now) IN
    IF Len(kept) >= MAX_ATTEMPTS
    THEN LET last_fail == kept[Len(kept)] IN
         IF t_now - last_fail < LOCKOUT_TIME
         THEN [attempts |-> kept, raised |-> TRUE]
         ELSE [attempts |-> <<>>, raised |-> FALSE]
    ELSE [attempts |-> kept, raised |-> FALSE]

\* lines 39-42: record_failed_attempt (cleanup_old_ips does nothing while no
\* more than MAX_TRACKED_IPS clients are tracked)
record_failed_attempt(ts, t_now) == Append(ts, t_now)

MsgTooManyAttempts == "Too many failed login attempts. Try again later."
MsgIncorrectPassword == "Incorrect password"

\* main.py lines 44-57: login_for_access_token from client ip, with a
\* password that verifies or not
Login(ip, password_ok) ==
    /\ up
    /\ LET c == check_rate_limit(failed_attempts[ip], now) IN
       IF c.raised
       THEN /\ failed_attempts' = [failed_attempts EXCEPT ![ip] = c.attempts]
            /\ ret' = Result("login", "429", MsgTooManyAttempts)
       ELSE IF ~password_ok
       THEN /\ failed_attempts' =
                [failed_attempts EXCEPT
                    ![ip] = record_failed_attempt(c.attempts, now)]
            /\ ret' = Result("login", "400", MsgIncorrectPassword)
       ELSE /\ failed_attempts' = [failed_attempts EXCEPT ![ip] = c.attempts]
            /\ ret' = Result("login", "token", "")
    /\ UNCHANGED <<now, rl_rest>>

LoginFails == \E ip \in Ips : Login(ip, FALSE)

LoginSucceeds == \E ip \in Ips : Login(ip, TRUE)

\* the wall clock moves on
TimePasses ==
    /\ now + TickSeconds <= MaxTime
    /\ now' = now + TickSeconds
    /\ UNCHANGED <<failed_attempts, ret, rl_rest>>

RlInit ==
    /\ failed_attempts = [ip \in Ips |-> <<>>]
    /\ now = 0

Init ==
    /\ up = TRUE
    /\ process = NoPid
    /\ external_pid = NoPid
    /\ server_start_time = NoPid
    /\ log_history = <<>>
    /\ publish_queue = <<>>
    /\ pid_file = Absent
    /\ os = [p \in Pid |-> "gone"]
    /\ stdin = <<>>
    /\ stdout = [p \in Pid |-> <<>>]
    /\ next_pid = 1
    /\ co = [c \in Requests |-> Idle]
    /\ rd = [pc |-> "check", pid |-> NoPid]
    /\ ret = Result("init", "none", "")
    /\ gs = GsIdle
    /\ FanInit
    /\ BkInit
    /\ LgInit
    /\ RlInit

\* the request handlers on the event loop, the reader thread beside it, the
\* manager's own life and the processes of the operating system
Next ==
    \/ StartServer
    \/ IsRunning
    \/ ForceKill
    \/ \E cmd \in UserCmds : SendCommand(cmd)
    \/ \E c \in Requests : StopServer(c)
    \/ \E c \in Requests : StopPoll(c)
    \/ \E c \in Requests : StopTimeout(c)
    \/ \E c \in Requests : RestartServer(c)
    \/ \E c \in Requests : RestartStop(c)
    \/ \E c \in Requests : RestartStart(c)
    \/ ReaderCheck
    \/ ReaderDeref
    \/ ReaderLine
    \/ ReaderEof
    \/ ReaderIsRunning
    \/ ReaderClean
    \/ ManagerExit
    \/ Construct
    \/ \E p \in Pid : ProcExit(p)
    \/ \E p \in Pid : ProcReap(p)
    \/ RecordDamaged

Spec == Init /\ [][Next]_vars

\* the line source, the relay and the subscribers of the console
NextFanout ==
    \/ FanReaderAppend
    \/ FanReaderPut
    \/ RelayGet
    \/ RelayFanout
    \/ \E s \in Subs : Subscribe(s)
    \/ \E s \in Subs : ReplaySend(s)
    \/ \E s \in Subs : LiveSend(s)
    \/ \E s \in Subs : SendFails(s)
    \/ \E s \in Subs : Disconnect(s)

\* get_stats among the operations that start, adopt and end processes
NextStats ==
    \/ StartServer
    \/ ForceKill
    \/ GetStatsEnter
    \/ GetStatsCpu
    \/ GetStatsMem
    \/ ManagerExit
    \/ Construct
    \/ \E p \in Pid : ProcExit(p)
    \/ \E p \in Pid : ProcReap(p)

SpecStats == Init /\ [][NextStats]_vars

\* the logger, its callers and its listeners
NextLogger ==
    \/ Log
    \/ \E l \in DebugClients : DebugConnect(l)
    \/ \E l \in DebugClients : DebugSend(l)
    \/ \E l \in DebugClients : DebugDisconnect(l)
    \/ \E l \in ThreadListeners : ThreadRegister(l)
    \/ \E l \in ThreadListeners : ThreadGet(l)

SpecLogger == Init /\ [][NextLogger]_vars

\* the reader thread beside the handlers that start and kill the server and
\* the debug stream that listens to the application log
NextReader ==
    \/ StartServer
    \/ ForceKill
    \/ ReaderCheck
    \/ ReaderDeref
    \/ ReaderLine
    \/ ReaderEof
    \/ ReaderIsRunning
    \/ ReaderClean
    \/ \E p \in Pid : ProcExit(p)
    \/ Log
    \/ \E l \in DebugClients : DebugConnect(l)

ReaderStep ==
    \/ ReaderCheck
    \/ ReaderDeref
    \/ ReaderLine
    \/ ReaderEof
    \/ ReaderIsRunning
    \/ ReaderClean

\* the thread is scheduled again and again
SpecReader == Init /\ [][NextReader]_vars /\ WF_vars(ReaderStep)

\* server_manager.py lines 40-48: the manager as it is after a construction
\* that adopted the server of the PID record
InitAdopted ==
    /\ up = TRUE
    /\ process = NoPid
    /\ external_pid = 1
    /\ server_start_time = NoPid
    /\ log_history = RingAppend(<<>>, Notice(1))
    /\ publish_queue = <<>>
    /\ pid_file = Record(1)
    /\ os = [p \in Pid |-> IF p = 1 THEN "live" ELSE "gone"]
    /\ stdin = <<>>
    /\ stdout = [p \in Pid |-> <<>>]
    /\ next_pid = 2
    /\ co = [c \in Requests |-> Idle]
    /\ rd = [pc |-> "check", pid |-> NoPid]
    /\ ret = Result("construct", "adopt", "")
    /\ gs = GsIdle
    /\ FanInit
    /\ BkInit
    /\ LgInit
    /\ RlInit

\* the history ring over a long run, from a construction with or without
\* adoption
NextRing ==
    \/ LongReaderAppend
    \/ FanReaderPut

SpecRing == (Init \/ InitAdopted) /\ [][NextRing]_vars

\* the backup engine with the worker taken checkpoint by checkpoint
NextCancel ==
    \/ CreateBackup
    \/ CancelBackup
    \/ \E r \in Runs : WorkerSetup(r)
    \/ \E r \in Runs : WalkStart(r)
    \/ \E r \in Runs : WalkCheck(r)
    \/ \E r \in Runs : WalkDir(r)
    \/ \E r \in Runs : WorkerMkstemp(r)
    \/ \E r \in Runs : ZipCheck(r)
    \/ \E r \in Runs : ZipWrite(r)
    \/ \E r \in Runs : WorkerFinalCheck(r)
    \/ \E r \in Runs : WorkerMove(r)
    \/ \E r \in Runs : WorkerPostMove(r)
    \/ \E r \in Runs : WorkerExcept(r)

SpecCancel ==
    Init /\ [][NextCancel]_vars /\ \A r \in Runs : WF_vars(FineWorkerStep(r))

SpecFanout == Init /\ [][NextFanout]_vars

\* the backup handlers on the event loop and the archival threads
NextBackup ==
    \/ CreateBackup
    \/ CancelBackup
    \/ \E r \in Runs : WorkerSetup(r)
    \/ \E r \in Runs : WorkerScan(r)
    \/ \E r \in Runs : WorkerMkstemp(r)
    \/ \E r \in Runs : WorkerZip(r)
    \/ \E r \in Runs : WorkerFinalCheck(r)
    \/ \E r \in Runs : WorkerMove(r)
    \/ \E r \in Runs : WorkerPostMove(r)
    \/ \E r \in Runs : WorkerExcept(r)
    \/ DeleteBackup
    \/ Tick

\* a thread that was started runs on: each worker takes its next step
SpecBackup ==
    Init /\ [][NextBackup]_vars /\ \A r \in Runs : WF_vars(WorkerStep(r))

\* ================================================================ claims
TrackedPid == IF process # NoPid THEN process ELSE external_pid
TrackedLive == TrackedPid # NoPid /\ os[TrackedPid] = "live"
SentResult == Result("send_command", "sent", "")

\* C1: start() called while a tracked process (owned or adopted) is live
\* answers "Server is already running" and spawns nothing, also when it
\* arrives while stop() or restart() is suspended; no step of any handler
\* spawns a child while a tracked process is live.
C1_StartRefusedWhileLive ==
    [][ /\ (StartServer /\ TrackedLive =>
               /\ ret' = Result("start", "error", MsgAlreadyRunning)
               /\ UNCHANGED <<next_pid, process, external_pid, pid_file, os>>)
        /\ (next_pid' # next_pid => ~TrackedLive) ]_vars

C1_Witness ==
    /\ ret = Result("start", "error", MsgAlreadyRunning)
    /\ TrackedLive
    /\ \E c \in Requests : co[c].pc \in {"sleep", "pause"}

\* C2: start() called when no tracked process is live and the jar exists (and
\* Popen does not raise) spawns one child, makes it the Owned handle with
\* the External pid cleared, writes its pid to the PID record, records the
\* start time and answers success.
C2_StartSucceeds ==
    [][ StartServer /\ ~TrackedLive
          /\ ret'.message \notin {MsgJarNotFound, MsgSpawnFailed} =>
            /\ next_pid' = next_pid + 1
            /\ process' = next_pid
            /\ external_pid' = NoPid
            /\ pid_file' = Record(next_pid)
            /\ server_start_time' # NoPid
            /\ ret'.status = "success" ]_vars

\* C3: while the process spawned by start() is alive and still the Owned
\* handle (kill() clears the handle, so kill() has not been called since),
\* the PID record exists and holds its pid.
C3_OwnedRecordKept ==
    process # NoPid /\ os[process] = "live" => pid_file = Record(process)

\* C4: constructing a supervisor when the PID record (readable) holds the
\* pid of a live, non-zombie process yields an External handle with that
\* pid: is_running() is true, the reconnect notice is the first line of the
\* history ring and the PID record is kept; send_command() on an External
\* handle writes nothing to the process.
C4_AdoptsLiveOrphan ==
    [][ /\ (Construct /\ pid_file.exists /\ ~ParseFails(pid_file.text)
              /\ os[pid_file.text] = "live" /\ ret'.status # "caught" =>
                /\ up'
                /\ external_pid' = pid_file.text
                /\ process' = NoPid
                /\ is_running'
                /\ Len(log_history') >= 1
                /\ log_history'[1] = Notice(pid_file.text)
                /\ pid_file' = pid_file)
        /\ \A cmd \in UserCmds :
              SendCommand(cmd) /\ process = NoPid /\ external_pid # NoPid =>
                stdin' = stdin ]_vars

C4_Witness ==
    /\ ret.op = "send_command"
    /\ process = NoPid
    /\ external_pid # NoPid
    /\ os[external_pid] = "live"
    /\ pid_file = Record(external_pid)
    /\ log_history = <<Notice(external_pid)>>
    /\ stdin = <<>>

\* C5: constructing a supervisor never fails because of the PID record: a
\* record that points at a dead pid is deleted and is_running() is false; a
\* record that cannot be read or does not parse as an integer leads to no
\* adoption and is_running() is false.
C5_ConstructNeverFails ==
    [][ Construct =>
          /\ up'
          /\ (pid_file.exists /\ ~ParseFails(pid_file.text)
                /\ ~PidExists(pid_file.text) /\ ret'.status # "caught" =>
                  pid_file' = Absent /\ ~is_running')
          /\ (pid_file.exists
                /\ (ParseFails(pid_file.text) \/ ret'.status = "caught") =>
                  external_pid' = NoPid /\ process' = NoPid /\ ~is_running') ]_vars

C5_Witness ==
    /\ up
    /\ ret = Result("construct", "caught", "")
    /\ pid_file.exists
    /\ ParseFails(pid_file.text)
    /\ external_pid = NoPid

\* C6: is_running() answers true exactly when the tracked process (owned or
\* adopted) is alive and not a zombie, false when nothing is tracked, and a
\* false answer for a tracked process leaves no PID record.
C6_IsRunningReflectsLiveness ==
    [][ IsRunning =>
          /\ (ret'.status = "True" <=> TrackedLive)
          /\ (TrackedPid = NoPid => ret'.status = "False")
          /\ (ret'.status = "False" /\ TrackedPid # NoPid => pid_file' = Absent) ]_vars

C6_Witness ==
    /\ ret = Result("is_running", "False", "")
    /\ external_pid = NoPid
    /\ process = NoPid
    /\ pid_file = Absent
    /\ \E p \in Pid : os[p] = "zombie"

\* C7: after kill() the handle is None (neither Owned nor External), the PID
\* record is absent and is_running() is false; kill() answers success
\* exactly when a handle was tracked and "No process to kill" otherwise; a
\* kill() right after a kill() changes nothing and answers that error.
C7_KillClearsEverything ==
    [][ ForceKill =>
          /\ process' = NoPid
          /\ external_pid' = NoPid
          /\ pid_file' = Absent
          /\ ~is_running'
          /\ (ret' = Result("kill", "success", MsgKilled) <=> TrackedPid # NoPid)
          /\ (TrackedPid = NoPid => ret' = Result("kill", "error", MsgNoProcess))
          /\ (ret.op = "kill" =>
                /\ ret' = Result("kill", "error", MsgNoProcess)
                /\ UNCHANGED <<up, process, external_pid, server_start_time,
                               log_history, publish_queue, pid_file, os, stdin,
                               stdout, next_pid, co, rd>>) ]_vars

C7_Witness ==
    /\ ret = Result("kill", "success", MsgKilled)
    /\ process = NoPid
    /\ external_pid = NoPid
    /\ pid_file = Absent
    /\ \E c \in Requests : co[c].pc = "sleep"

\* C8: stop() answers graceful success if and only if the tracked process
\* exits within the 10 s bound of its 20 polls, so a stop() that answers the
\* timeout warning still has a live tracked process; the warning is the
\* "cannot stop orphaned server" one exactly when the handle is External and
\* the "stop command sent, still running" one for an Owned handle.
C8_TimeoutMessageByHandle ==
    [][ \A c \in Requests :
          StopTimeout(c) /\ co[c].kind = "stop" =>
            /\ TrackedLive
            /\ ret'.status = "warning"
            /\ (ret'.message = MsgOrphanTimeout <=> process = NoPid /\ external_pid # NoPid)
            /\ (process # NoPid => ret'.message = MsgStillRunning) ]_vars

\* C9 as claimed: restart() runs stop(), then the pause, then one start():
\* every call of start_server by restart_server comes after the pause.
C9_StartOnlyAfterPause ==
    [][ \A c \in Requests :
          RestartServer(c) \/ RestartStart(c) =>
            (ret'.op = "restart" /\ ret'.message # MsgStopFailed => co[c].pc = "pause") ]_vars

\* C9 as amended: restart() called while the server is running runs stop(),
\* then the pause, then one start(), in that order, and answers an error
\* without calling start() when stop() answers an error; called while the
\* server is not running it calls start() once at once, with no stop() and
\* no pause; no call of restart() calls start() more than once.
C9_RestartOrder ==
    [][ \A c \in Requests :
          /\ (RestartServer(c) =>
                IF TrackedLive
                THEN /\ co'[c] = [kind |-> "restart", pc |-> "call_stop", polls |-> 0]
                     /\ UNCHANGED <<ret, next_pid, process>>
                ELSE /\ co'[c] = Idle
                     /\ ret'.op = "restart"
                     /\ next_pid' \in {next_pid, next_pid + 1})
          /\ (RestartStop(c) =>
                IF TrackedLive
                THEN /\ co'[c] = [kind |-> "restart", pc |-> "loop", polls |-> 0]
                     /\ UNCHANGED <<ret, next_pid, process>>
                ELSE /\ ret' = Result("restart", "error", MsgStopFailed)
                     /\ co'[c] = Idle
                     /\ UNCHANGED <<next_pid, process>>)
          /\ (co[c].kind = "restart" /\ co[c].pc \in {"loop", "sleep"}
                /\ co'[c] # co[c] /\ up' =>
                  /\ co'[c].kind = "restart"
                  /\ co'[c].pc \in {"sleep", "pause"}
                  /\ UNCHANGED <<ret, next_pid, process>>)
          /\ (co[c].pc = "pause" /\ co'[c] # co[c] /\ up' =>
                /\ co'[c] = Idle
                /\ ret'.op = "restart"
                /\ next_pid' \in {next_pid, next_pid + 1}) ]_vars

C9_Witness ==
    /\ ret = Result("restart", "error", MsgStopFailed)
    /\ \A c \in Requests : co[c] = Idle
    /\ process # NoPid
    /\ os[process] # "live"

\* C10: send_command() on an External handle writes nothing and yields a
\* "no console access" result that differs from the result for an Owned
\* handle.
C10_ExternalResultDistinct ==
    [][ \A cmd \in UserCmds :
          SendCommand(cmd) /\ process = NoPid /\ external_pid # NoPid =>
            stdin' = stdin /\ ret' # SentResult ]_vars

\* C11: a subscriber is never sent the same line twice: what it receives is
\* the replay of the ring followed by each later line exactly once.
C11_NoLineTwice ==
    \A s \in Subs : \A i, j \in 1..Len(received[s]) :
        i # j => received[s][i] # received[s][j]

\* C12: what a subscriber receives is in production order: no line is sent
\* to it after a line that was produced later.
C12_ProductionOrder ==
    \A s \in Subs : \A i, j \in 1..Len(received[s]) :
        i < j => received[s][i].n <= received[s][j].n

\* C13: when the relay replicates a line, a registered subscriber whose
\* queue is full loses that line and nothing else, every other registered
\* subscriber with room gets it appended; the relay's replication step and
\* the reader's put are always able to run whatever the subscribers'
\* queues hold; no subscriber queue ever holds more than its capacity.
C13_SlowSubscriberAlone ==
    /\ [](\A s \in Subs : Len(client_queue[s]) <= QueueMaxsize)
    /\ [](relay.pc = "put" => ENABLED RelayFanout)
    /\ [](src.pending # NoLine => ENABLED FanReaderPut)
    /\ [][ RelayFanout =>
             \A s \in Subs :
               client_queue'[s] =
                 IF s \in Listening /\ Len(client_queue[s]) < QueueMaxsize
                 THEN Append(client_queue[s], relay.line)
                 ELSE client_queue[s] ]_vars

C13_Witness ==
    \E s, t \in Subs :
        /\ s # t
        /\ s \in Listening
        /\ t \in Listening
        /\ relay.pc = "get"
        /\ publish_queue = <<>>
        /\ src = [produced |-> MaxLines, pending |-> NoLine]
        /\ Len(client_queue[s]) = QueueMaxsize
        /\ \A i \in 1..Len(client_queue[s]) : client_queue[s][i] # Line(MaxLines)
        /\ client_queue[t] # <<>>
        /\ client_queue[t][Len(client_queue[t])] = Line(MaxLines)

C15_CreateRefusedWhileRunning ==
    /\ [](Cardinality({r \in Runs : Active(r)}) <= 1)
    /\ [][ CreateBackup /\ current_status.state = "running" =>
             /\ ret' = Result("create_backup", "error", MsgBackupRunning)
             /\ UNCHANGED <<current_status, cancel_requested, worker, temp,
                            dest, runs>> ]_vars

C15_Witness ==
    /\ ret = Result("create_backup", "error", MsgBackupRunning)
    /\ current_status.state = "running"
    /\ \E r \in Runs : worker[r].pc = "zip"

\* C16: cancel_backup() called in a state other than running answers an
\* error and changes neither the status record nor the cancel flag; called
\* while running it sets the cancel flag and answers success.
C16_CancelOnlyWhileRunning ==
    [][ CancelBackup =>
          IF current_status.state = "running"
          THEN /\ cancel_requested'
               /\ ret' = Result("cancel_backup", "success", MsgCancelRequested)
               /\ UNCHANGED current_status
          ELSE /\ ret' = Result("cancel_backup", "error", MsgNoBackup)
               /\ UNCHANGED <<current_status, cancel_requested>> ]_vars

C16_Witness ==
    /\ ret = Result("cancel_backup", "error", MsgNoBackup)
    /\ current_status.state = "success"
    /\ ~cancel_requested

\* C17: the backup state changes only from idle to running, from running
\* to success, error or cancelled, and from one of these three to running.
C17_StateMachine ==
    [][ current_status'.state # current_status.state =>
          \/ current_status.state = "idle" /\ current_status'.state = "running"
          \/ current_status.state = "running" /\ current_status'.state \in Terminal
          \/ current_status.state \in Terminal /\ current_status'.state = "running" ]_vars

C17_Witness ==
    /\ runs = MaxRuns
    /\ current_status.state = "cancelled"
    /\ dest[1] = "final"

\* C18: every backup run that enters state running eventually leaves it for
\* success, error or cancelled, whichever operation of the run fails.
C18_RunLeavesRunning ==
    [](current_status.state = "running" => <>(current_status.state \in Terminal))

\* C19: a run during which cancel_backup() answered success (the cancel
\* flag is set when the run ends) never ends in state success, at whatever
\* point of the run the request arrived.
C19_CancelledRunNeverSucceeds ==
    [][ current_status.state = "running" /\ cancel_requested =>
          current_status'.state # "success" ]_vars

\* C20: after a run that ended in state cancelled or error the destination
\* directory holds no archive of that run, partial or final, and its
\* temporary archive is gone.
C20_FailedRunLeavesNothing ==
    current_status.state \in {"cancelled", "error"} =>
        dest[runs] = "none" /\ ~temp[runs]

\* C30: in every reachable state at most one of the Owned handle and the
\* External pid is set; the External pid is set only by the adoption of
\* the constructor; every spawn of start() leaves it cleared.
C30_OneHandle ==
    /\ [](~(process # NoPid /\ external_pid # NoPid))
    /\ [][ /\ (external_pid' # external_pid /\ external_pid' # NoPid =>
                 ~up /\ up' /\ ret' = Result("construct", "adopt", ""))
           /\ (next_pid' # next_pid =>
                 process' = next_pid /\ external_pid' = NoPid) ]_vars

C30_Witness ==
    /\ log_history # <<>>
    /\ log_history[1].kind = "system"
    /\ process # NoPid
    /\ os[process] = "live"
    /\ external_pid = NoPid

\* C27: get_stats() reports a known uptime for every live process that
\* this supervisor started.
C27_OwnedUptimeKnown ==
    [][ ret'.op = "get_stats" /\ gs # GsIdle /\ gs' = GsIdle /\ up'
          /\ ret'.status = "online" /\ process # NoPid =>
            ret'.uptime # "N/A" ]_vars

\* C28: whenever get_stats() reports status offline, the CPU percent and
\* the resident memory it reports are both 0, also when the tracked process
\* disappears while its statistics are being collected.
C28_OfflineReportsZero ==
    ret.op = "get_stats" /\ ret.status = "offline" => ret.cpu = 0 /\ ret.ram = 0

C28_Witness ==
    /\ ret.op = "get_stats"
    /\ ret.status = "offline"
    /\ gs = GsIdle
    /\ external_pid # NoPid
    /\ os[external_pid] = "gone"
    /\ pid_file = Record(external_pid)

\* C29: app_logger.log(msg) delivers the message to every registered
\* listener queue that has free capacity, a listener whose queue is full
\* loses only that message, and the call does not raise, whichever kind of
\* queue the listener registered.
C29_LogDeliversAndReturns ==
    [][ ret'.op = "log" /\ log_count' = log_count + 1 =>
          /\ ret'.status = "returned"
          /\ \A l \in Registered :
               log_queues'[l] =
                   IF l \in DebugClients /\ Len(log_queues[l]) >= DebugQueueMaxsize
                   THEN log_queues[l]
                   ELSE Append(log_queues[l], log_count') ]_vars

\* C21: a world backup whose folder does not exist ends in state error with
\* the message that names the folder, and a run that finds no file ends in
\* state error; in both cases progress is 0, the filename is empty and no
\* archive is created.
C21_MissingSourceEndsInError ==
    [][ \A r \in Runs :
          /\ worker[r].pc = "except"
          /\ worker[r].e \in {MsgWorldNotFound, MsgNoFiles}
          /\ worker'[r].pc # "except"
          => /\ current_status' = Status("error", worker[r].e)
             /\ current_status'.progress = 0
             /\ current_status'.filename = <<>>
             /\ dest'[r] = "none"
             /\ ~temp'[r] ]_vars

\* The run that commits its archive adds exactly one file to the
\* destination directory, and the run that ends without failure reports
\* success with progress 100.
OneArchiveAndSuccess ==
    [][ \A r \in Runs :
          /\ (worker[r].pc = "move" /\ worker'[r].pc = "post" =>
                /\ fs \subseteq fs'
                /\ fs' \ fs = {worker[r].target}
                /\ dirname(worker[r].target) = abspath(backup_dir))
          /\ (worker[r].pc = "post" /\ worker'[r].pc = "done" =>
                /\ current_status'.state = "success"
                /\ current_status'.progress = 100) ]_vars

C23_FilenameIsCommittedName ==
    [][ \A r \in Runs :
          worker[r].pc = "post" /\ worker'[r].pc = "done" =>
            current_status'.filename = basename(worker[r].target) ]_vars

\* C24: a run commits its archive under a name that no file of the
\* destination directory has at that moment, and the commit removes or
\* replaces no file, over any sequence of backups and deletions, several
\* backups within one second of the clock included.
C24_CommitNeverOverwrites ==
    [][ \A r \in Runs :
          worker[r].pc = "move" /\ dest'[r] # dest[r] =>
            /\ ~exists(worker[r].target)
            /\ fs' = fs \cup {worker[r].target} ]_vars

C24_Witness ==
    \E f, g \in fs :
        /\ dirname(f) = abspath(backup_dir)
        /\ dirname(g) = abspath(backup_dir)
        /\ basename(g) = splitext(basename(f)).name \o <<"_", "1">>
                             \o splitext(basename(f)).ext
        /\ \E r \in Runs : dest[r] = "final" /\ worker[r].pc = "post"
                           /\ worker[r].target = g

\* C25: delete_backup(name) removes a file only when the canonical path of
\* the name lies inside the destination directory; a name that resolves
\* outside it is answered 'Invalid path' and changes nothing; a name inside
\* it removes exactly that file, or is answered 'File not found'.
C25_DeleteStaysInside ==
    [][ DeleteBackup /\ ret'.status # "raised" =>
          /\ fs' # fs =>
               /\ \E f \in fs : /\ fs' = fs \ {f}
                                /\ Inside(f, abspath(backup_dir))
               /\ ret' = Result("delete_backup", "success", MsgDeleted)
          /\ fs' = fs =>
               ret'.message \in {MsgInvalidPath, MsgFileNotFound} ]_vars

\* C26: every public operation of the supervisor and of the backup engine
\* answers a structured result whatever fails underneath; no exception
\* reaches its caller.
C26_NoExceptionEscapes ==
    ret.op \in {"start", "stop", "restart", "kill", "send_command", "get_stats",
                "create_backup", "cancel_backup", "delete_backup"}
        => ret.status # "raised"

\* C31: whenever start() returns status error, that call has spawned no
\* child process, and the handle, the PID record and the recorded start
\* time are as they were before the call.
C31_FailedStartChangesNothing ==
    [][ StartServer /\ ret'.status = "error" =>
          /\ next_pid' = next_pid
          /\ os' = os
          /\ process' = process
          /\ pid_file' = pid_file
          /\ server_start_time' = server_start_time ]_vars

\* C32: the reader thread never terminates, whatever exception its loop
\* meets, and every line that the process of the handle has written is
\* eventually taken from its pipe into the history and the publish queue.
C32_ReaderNeverEnds ==
    /\ [](rd.pc # "dead")
    /\ \A p \in Pid :
         [](process = p /\ stdout[p] # <<>> => <>(process # p \/ stdout[p] = <<>>))

\* the last k elements of a sequence
LastN(h, k) == SubSeq(h, IF Len(h) > k THEN Len(h) - k + 1 ELSE 1, Len(h))

\* C33: the history ring never holds more than 200 lines; every change of
\* it appends one line and keeps, in order, the most recent 200 of the
\* lines it held and the new one, so that it always holds the most recent
\* min(n, 200) of the n lines appended; only the adoption of the
\* constructor (its notice) and the reader (a line of output) append.
C33_RingKeepsLast200 ==
    /\ [](Len(log_history) <= 200)
    /\ [][ log_history' # log_history /\ up' =>
             /\ log_history' # <<>>
             /\ log_history' = LastN(Append(log_history,
                                            log_history'[Len(log_history')]), 200)
             /\ log_history'[Len(log_history')].kind = "system" =>
                    ~up /\ ret' = Result("construct", "adopt", "")
             /\ log_history'[Len(log_history')].kind = "out" =>
                    up /\ (src' # src \/ rd' # rd) ]_vars

C33_Witness ==
    /\ Len(log_history) = 200
    /\ src.produced = 201
    /\ log_history[1] = Line(2)
    /\ log_history[200] = Line(201)
    /\ external_pid # NoPid

\* C34: the list of files to archive holds exactly the files under the
\* source root that are not under the backup destination directory: no
\* file under the destination directory is in it, and every other file
\* under the source root is, also one in a directory whose name begins
\* with the destination directory's name.
C34_ListIsSourceMinusDestination ==
    [][ \A r \in Runs :
          worker[r].pc = "scan" /\ worker'[r].pc = "mkstemp" =>
            /\ \A f \in worker'[r].found :
                 /\ Inside(f, abspath(source_root(worker[r].type)))
                 /\ ~Inside(f, abspath(backup_dir))
            /\ \A f \in fs :
                 /\ Inside(f, abspath(source_root(worker[r].type)))
                 /\ ~Inside(f, abspath(backup_dir))
                 => f \in worker'[r].found ]_vars

\* the run is enumerating or archiving
Working(r) ==
    worker[r].pc \in {"walk", "walkdir", "mkstemp", "zip", "zipwrite", "final"}

\* C35: once the cancel flag is set while the worker enumerates or
\* archives, the worker lists at most one further directory or writes at
\* most one further archive entry, and then aborts the run.
C35_CancelLatencyOneStep ==
    /\ [](\A r \in Runs : worker[r].after <= 1)
    /\ \A r \in Runs :
         [](cancel_requested /\ Working(r) => <>(worker[r].pc = "except"))

C35_Witness ==
    \E r \in Runs :
        /\ worker[r].pc = "except"
        /\ worker[r].e = MsgCancelled
        /\ worker[r].after = 1
        /\ zipped[r] # {}

\* C36: the reported progress is always an integer in 0..100, never
\* decreases while the state stays running, is 100 whenever the state is
\* success and 0 whenever the state is error or cancelled.
C36_ProgressInRangeAndMonotone ==
    /\ [](/\ current_status.progress \in 0..100
          /\ current_status.state = "success" => current_status.progress = 100
          /\ current_status.state \in {"error", "cancelled"} =>
                current_status.progress = 0)
    /\ [][ current_status.state = "running" /\ current_status'.state = "running"
             => current_status'.progress >= current_status.progress ]_vars

C36_Witness ==
    /\ current_status.state = "running"
    /\ current_status.progress \in 1..99
    /\ \E r \in Runs : worker[r].pc = "zip" /\ worker[r].todo > 0

\* C37: a cancel request affects only the run that was running when
\* cancel_backup() was called: a run is cancelled only with the flag set,
\* the flag is set only by a cancel_backup() that found a run running, and
\* every create_backup() that starts a run clears it before the run's
\* thread begins, under every interleaving of the three.
C37_CancelNeverOutlivesItsRun ==
    /\ [][ \A r \in Runs :
             worker[r].pc # "except" /\ worker'[r].pc = "except"
             /\ worker'[r].e = MsgCancelled
             => cancel_requested /\ r = runs ]_vars
    /\ [][ runs' # runs => ~cancel_requested' /\ worker'[runs'].pc = "start" ]_vars
    /\ [][ cancel_requested' /\ ~cancel_requested =>
             /\ current_status.state = "running"
             /\ runs' = runs
             /\ ret' = Result("cancel_backup", "success", MsgCancelRequested) ]_vars

C37_Witness ==
    /\ runs = 2
    /\ worker[1].pc = "done"
    /\ worker[1].after = 1
    /\ worker[2].pc = "post"
    /\ dest[2] = "final"
    /\ ~cancel_requested

\* logins and the passing of time
NextLimiter ==
    \/ LoginFails
    \/ LoginSucceeds
    \/ TimePasses

SpecLimiter == Init /\ [][NextLimiter]_vars

\* C38: a login from a client that has MAX_ATTEMPTS failed attempts on
\* record, all within WINDOW of the last one, is rejected with 429 while
\* less than LOCKOUT_TIME has passed since the last of them, and is let
\* through to the password check once LOCKOUT_TIME has passed.
C38_LockedForLockoutTime ==
    [][ \A ip \in Ips :
          LET ts == failed_attempts[ip] IN
          (Login(ip, TRUE) \/ Login(ip, FALSE)) /\ Len(ts) >= MAX_ATTEMPTS =>
              IF now - ts[Len(ts)] < LOCKOUT_TIME
              THEN ret'.status = "429"
              ELSE ret'.status # "429" ]_vars

====
